---- MODULE Spec2Model ----
(***************************************************************************)
(* Model of src/src/index.ts: the Express server with the /health probe,   *)
(* the static root endpoint and the SIGTERM/SIGINT shutdown handler.       *)
(*                                                                         *)
(* An async handler is split where the code awaits: the part up to the     *)
(* await is one action, the settling of the awaited promise is a step of   *)
(* the environment (the database client), and the continuation after the   *)
(* await is one action.  A promise rejected and left unhandled is handed   *)
(* to the runtime, which acts on it once the continuations that are ready  *)
(* to run have run.                                                        *)
(*                                                                         *)
(* The uptime and timestamp fields of the /health payload are not          *)
(* modelled; none of the properties below reads them.                      *)
(***************************************************************************)
EXTENDS Integers, Sequences, FiniteSets, TLC

VARIABLES
    proc,          \* "running" | "exited"
    exitCode,      \* -1 while running, else the exit status of the process
    rejectionMode, \* what the runtime does with an unhandled rejection
    dbUp,          \* whether the database answers the probe query
    reqs,          \* the HTTP requests accepted so far, in arrival order
    shut,          \* the invocations of shutdown, in signal order
    probes,        \* number of SELECT 1 queries issued
    disconnects,   \* number of prisma.$disconnect() invocations
    signals,       \* number of SIGTERM/SIGINT events emitted to the process
    unhandled,     \* rejected promises nobody handles, not yet processed
    trace          \* what the shutdown handlers did (log, disconnect, exit), in order

vars == <<proc, exitCode, rejectionMode, dbUp, reqs, shut, probes,
          disconnects, signals, unhandled, trace>>

\* Bounds of the model
MaxReq == 2
MaxSig == 2

Signals == {"SIGTERM", "SIGINT"}
RejectionModes == {"throw", "warn"}

\* ---------------------------------------------------------------- payloads

RootPayload == [service |-> "API Server", status |-> "running", version |-> "1.0.0"]

HealthStatus_swapped(dbOk) == IF dbOk THEN "degraded" ELSE "healthy"

HealthStatus(dbOk) == IF dbOk THEN "healthy" ELSE "degraded"

HealthPayload(dbOk) == [status |-> HealthStatus(dbOk)]

\* res.json(body): status code 200 unless set otherwise
Json(body) == [code |-> 200, body |-> body]

\* ---------------------------------------------------------------- helpers

ReqIds == 1..Len(reqs)
ShutIds == 1..Len(shut)

Running == proc = "running"

\* continuations whose awaited promise has settled and that have not run yet
MicrotasksPending ==
    \/ \E r \in ReqIds : reqs[r].pc = "resumable"
    \/ \E i \in ShutIds : shut[i].pc = "resumable"

Emit(ev, id) == Append(trace, [ev |-> ev, id |-> id])

\* ---------------------------------------------------------------- Init

Init ==
    /\ proc = "running"
    /\ exitCode = -1
    /\ rejectionMode \in RejectionModes
    /\ dbUp \in BOOLEAN
    /\ reqs = <<>>
    /\ shut = <<>>
    /\ probes = 0
    /\ disconnects = 0
    /\ signals = 0
    /\ unhandled = 0
    /\ trace = <<>>

\* ---------------------------------------------------------------- database

\* the database becomes unreachable or reachable again
DbFlip ==
    /\ Running
    /\ dbUp' = ~dbUp
    /\ UNCHANGED <<proc, exitCode, rejectionMode, reqs, shut, probes,
                   disconnects, signals, unhandled, trace>>

\* ---------------------------------------------------------------- GET /health

\* app.get("/health"), up to the await: dbOk = false, issue SELECT 1
GetHealth_blocking ==
    /\ Running
    /\ Len(reqs) < MaxReq
    /\ \A r \in ReqIds : reqs[r].pc = "done"
    /\ reqs' = Append(reqs, [path |-> "/health", pc |-> "awaiting",
                             probe |-> "pending", dbOk |-> FALSE, logged |-> FALSE, res |-> <<>>])
    /\ probes' = probes + 1
    /\ UNCHANGED <<proc, exitCode, rejectionMode, dbUp, shut, disconnects,
                   signals, unhandled, trace>>

GetHealth ==
    /\ Running
    /\ Len(reqs) < MaxReq
    /\ reqs' = Append(reqs, [path |-> "/health", pc |-> "awaiting",
                             probe |-> "pending", dbOk |-> FALSE, logged |-> FALSE, res |-> <<>>])
    /\ probes' = probes + 1
    /\ UNCHANGED <<proc, exitCode, rejectionMode, dbUp, shut, disconnects,
                   signals, unhandled, trace>>

\* the promise of prisma.$queryRaw`SELECT 1` settles
ProbeSettle(r) ==
    /\ Running
    /\ reqs[r].pc = "awaiting"
    /\ reqs' = [reqs EXCEPT ![r].probe = IF dbUp THEN "ok" ELSE "failed",
                            ![r].pc = "resumable"]
    /\ UNCHANGED <<proc, exitCode, rejectionMode, dbUp, shut, probes,
                   disconnects, signals, unhandled, trace>>

\* the handler after the await: dbOk = true or the catch block, then res.json
HealthResume_rethrow(r) ==
    /\ Running
    /\ reqs[r].pc = "resumable"
    /\ IF reqs[r].probe = "ok"
       THEN /\ reqs' = [reqs EXCEPT ![r].dbOk = TRUE, ![r].pc = "done",
                                    ![r].res = <<Json(HealthPayload(TRUE))>>]
            /\ UNCHANGED unhandled
       ELSE /\ reqs' = [reqs EXCEPT ![r].logged = TRUE, ![r].pc = "done"]
            /\ unhandled' = unhandled + 1
    /\ UNCHANGED <<proc, exitCode, rejectionMode, dbUp, shut, probes,
                   disconnects, signals, trace>>

HealthResume_retry(r) ==
    /\ Running
    /\ reqs[r].pc = "resumable"
    /\ IF reqs[r].probe = "ok"
       THEN /\ reqs' = [reqs EXCEPT ![r].dbOk = TRUE, ![r].pc = "done",
                                    ![r].res = <<Json(HealthPayload(TRUE))>>]
            /\ UNCHANGED probes
       ELSE /\ reqs' = [reqs EXCEPT ![r].logged = TRUE, ![r].probe = "pending",
                                    ![r].pc = "awaiting"]
            /\ probes' = probes + 1
    /\ UNCHANGED <<proc, exitCode, rejectionMode, dbUp, shut,
                   disconnects, signals, unhandled, trace>>

HealthResume_timeout(r) ==
    /\ Running
    /\ reqs[r].pc \in {"awaiting", "resumable"}
    /\ LET ok == reqs[r].probe = "ok" IN
       reqs' = [reqs EXCEPT ![r].dbOk = ok, ![r].logged = ~ok, ![r].pc = "done",
                            ![r].res = <<Json(HealthPayload(ok))>>]
    /\ UNCHANGED <<proc, exitCode, rejectionMode, dbUp, shut, probes,
                   disconnects, signals, unhandled, trace>>

HealthResume(r) ==
    /\ Running
    /\ reqs[r].pc = "resumable"
    /\ LET ok == reqs[r].probe = "ok" IN
       reqs' = [reqs EXCEPT ![r].dbOk = ok, ![r].logged = ~ok, ![r].pc = "done",
                            ![r].res = <<Json(HealthPayload(ok))>>]
    /\ UNCHANGED <<proc, exitCode, rejectionMode, dbUp, shut, probes,
                   disconnects, signals, unhandled, trace>>

\* ---------------------------------------------------------------- GET /

GetRoot_probing ==
    /\ Running
    /\ Len(reqs) < MaxReq
    /\ reqs' = Append(reqs, [path |-> "/", pc |-> "done", probe |-> "none",
                             dbOk |-> FALSE, logged |-> FALSE,
                             res |-> <<Json(RootPayload)>>])
    /\ probes' = probes + 1
    /\ UNCHANGED <<proc, exitCode, rejectionMode, dbUp, shut,
                   disconnects, signals, unhandled, trace>>

GetRoot ==
    /\ Running
    /\ Len(reqs) < MaxReq
    /\ reqs' = Append(reqs, [path |-> "/", pc |-> "done", probe |-> "none",
                             dbOk |-> FALSE, logged |-> FALSE,
                             res |-> <<Json(RootPayload)>>])
    /\ UNCHANGED <<proc, exitCode, rejectionMode, dbUp, shut, probes,
                   disconnects, signals, unhandled, trace>>

\* ---------------------------------------------------------------- shutdown

\* shutdown, up to the await: log, then invoke prisma.$disconnect()
Signal_oneShot(sig) ==
    /\ Running
    /\ signals < MaxSig
    /\ signals' = signals + 1
    /\ IF shut = <<>>
       THEN /\ trace' = Append(Emit("Shutting down", Len(shut) + 1),
                               [ev |-> "disconnect", id |-> Len(shut) + 1])
            /\ disconnects' = disconnects + 1
            /\ shut' = Append(shut, [sig |-> sig, pc |-> "awaiting", disc |-> "pending"])
       ELSE UNCHANGED <<trace, disconnects, shut>>
    /\ UNCHANGED <<proc, exitCode, rejectionMode, dbUp, reqs, probes, unhandled>>

Signal_noAwait(sig) ==
    /\ Running
    /\ signals < MaxSig
    /\ signals' = signals + 1
    /\ trace' = Append(Append(Emit("Shutting down", Len(shut) + 1),
                              [ev |-> "disconnect", id |-> Len(shut) + 1]),
                       [ev |-> "exit", id |-> Len(shut) + 1])
    /\ disconnects' = disconnects + 1
    /\ shut' = Append(shut, [sig |-> sig, pc |-> "exited", disc |-> "pending"])
    /\ proc' = "exited"
    /\ exitCode' = 0
    /\ UNCHANGED <<rejectionMode, dbUp, reqs, probes, unhandled>>

Signal(sig) ==
    /\ Running
    /\ signals < MaxSig
    /\ signals' = signals + 1
    /\ trace' = Append(Emit("Shutting down", Len(shut) + 1),
                       [ev |-> "disconnect", id |-> Len(shut) + 1])
    /\ disconnects' = disconnects + 1
    /\ shut' = Append(shut, [sig |-> sig, pc |-> "awaiting", disc |-> "pending"])
    /\ UNCHANGED <<proc, exitCode, rejectionMode, dbUp, reqs, probes, unhandled>>

\* the promise of prisma.$disconnect() settles
DisconnectSettle(i, ok) ==
    /\ Running
    /\ shut[i].pc = "awaiting"
    /\ shut' = [shut EXCEPT ![i].disc = IF ok THEN "ok" ELSE "failed",
                            ![i].pc = "resumable"]
    /\ UNCHANGED <<proc, exitCode, rejectionMode, dbUp, reqs, probes,
                   disconnects, signals, unhandled, trace>>

\* shutdown after the await: process.exit(0), or the rejection leaves the
\* async function and nobody handles it
ShutdownResume_drain(i) ==
    /\ Running
    /\ shut[i].pc = "resumable"
    /\ \A r \in ReqIds : reqs[r].pc = "done"
    /\ IF shut[i].disc = "ok"
       THEN /\ shut' = [shut EXCEPT ![i].pc = "exited"]
            /\ trace' = Emit("exit", i)
            /\ proc' = "exited"
            /\ exitCode' = 0
            /\ UNCHANGED unhandled
       ELSE /\ shut' = [shut EXCEPT ![i].pc = "threw"]
            /\ unhandled' = unhandled + 1
            /\ UNCHANGED <<trace, proc, exitCode>>
    /\ UNCHANGED <<rejectionMode, dbUp, reqs, probes, disconnects, signals>>

ShutdownResume(i) ==
    /\ Running
    /\ shut[i].pc = "resumable"
    /\ IF shut[i].disc = "ok"
       THEN /\ shut' = [shut EXCEPT ![i].pc = "exited"]
            /\ trace' = Emit("exit", i)
            /\ proc' = "exited"
            /\ exitCode' = 0
            /\ UNCHANGED unhandled
       ELSE /\ shut' = [shut EXCEPT ![i].pc = "threw"]
            /\ unhandled' = unhandled + 1
            /\ UNCHANGED <<trace, proc, exitCode>>
    /\ UNCHANGED <<rejectionMode, dbUp, reqs, probes, disconnects, signals>>

\* the runtime processes the rejections nobody handled, after the ready
\* continuations have run: it terminates the process with status 1, or it
\* prints a warning and carries on
ProcessRejections ==
    /\ Running
    /\ unhandled > 0
    /\ ~MicrotasksPending
    /\ unhandled' = 0
    /\ IF rejectionMode = "throw"
       THEN proc' = "exited" /\ exitCode' = 1
       ELSE UNCHANGED <<proc, exitCode>>
    /\ UNCHANGED <<rejectionMode, dbUp, reqs, shut, probes, disconnects,
                   signals, trace>>

\* ---------------------------------------------------------------- Next

Next ==
    \/ DbFlip
    \/ GetHealth
    \/ \E r \in ReqIds : ProbeSettle(r)
    \/ \E r \in ReqIds : HealthResume(r)
    \/ GetRoot
    \/ \E sig \in Signals : Signal(sig)
    \/ \E i \in ShutIds, ok \in BOOLEAN : DisconnectSettle(i, ok)
    \/ \E i \in ShutIds : ShutdownResume(i)
    \/ ProcessRejections

Spec == Init /\ [][Next]_vars

\* The event loop runs every continuation that is ready and then processes
\* the unhandled rejections; nothing is assumed of the environment (requests,
\* signals, the database, the settling of promises).
Fairness ==
    /\ \A r \in 1..MaxReq : WF_vars(r \in ReqIds /\ HealthResume(r))
    /\ \A i \in 1..MaxSig : WF_vars(i \in ShutIds /\ ShutdownResume(i))
    /\ WF_vars(ProcessRejections)

FairSpec == Spec /\ Fairness

TypeOK ==
    /\ proc \in {"running", "exited"}
    /\ exitCode \in {-1, 0, 1}
    /\ rejectionMode \in RejectionModes
    /\ dbUp \in BOOLEAN
    /\ Len(reqs) <= MaxReq
    /\ Len(shut) <= MaxSig
\* ---------------------------------------------------------------- properties

HealthIds == {r \in ReqIds : reqs[r].path = "/health"}
RootIds == {r \in ReqIds : reqs[r].path = "/"}
Answered(r) == reqs[r].res # <<>>
Settled(r) == reqs[r].probe \in {"ok", "failed"}

\* positions of an effect of shutdown invocation i in the trace
At(ev, i) == {k \in 1..Len(trace) : trace[k] = [ev |-> ev, id |-> i]}

\* C1: every answered GET /health has status code 200, and its status is
\* "healthy" exactly when its own probe succeeded and "degraded" exactly when
\* its own probe failed, whatever the database and the other requests do.
C1_HealthAlways200 ==
    \A r \in HealthIds : Answered(r) =>
        /\ reqs[r].res[1].code = 200
        /\ reqs[r].res[1].body.status \in {"healthy", "degraded"}
        /\ reqs[r].res[1].body.status = "healthy" <=> reqs[r].probe = "ok"
        /\ reqs[r].res[1].body.status = "degraded" <=> reqs[r].probe = "failed"

\* two health requests answered, one healthy and one degraded
C1_Witness ==
    \E r, q \in HealthIds :
        /\ Answered(r) /\ reqs[r].probe = "ok"
        /\ Answered(q) /\ reqs[q].probe = "failed"

\* C2: process.exit(0) is called only by a shutdown invocation that logged,
\* then invoked the disconnect, and whose disconnect has succeeded; the
\* process has exit status 0 only through such a call; and once a disconnect
\* has succeeded the process exits with status 0.
C2_ExitOrder ==
    /\ \A i \in ShutIds : \A k \in At("exit", i) :
          /\ shut[i].disc = "ok"
          /\ \E a \in At("Shutting down", i) : \E b \in At("disconnect", i) :
                a < b /\ b < k
    /\ exitCode = 0 => \E i \in ShutIds : At("exit", i) # {}

C2_SignalThenExitZero ==
    /\ []C2_ExitOrder
    /\ \A i \in 1..MaxSig :
          (i \in ShutIds /\ shut[i].disc = "ok") ~> (proc = "exited" /\ exitCode = 0)

\* the process has exited with status 0 after a disconnect that succeeded
C2_Witness ==
    /\ proc = "exited" /\ exitCode = 0
    /\ \E i \in ShutIds : shut[i].disc = "ok" /\ At("exit", i) # {}

\* C3: whenever a termination signal was delivered and its disconnect has
\* failed, the process eventually reaches the exited state.
C3_FailedDisconnectStillExits ==
    \A i \in 1..MaxSig :
        (i \in ShutIds /\ shut[i].disc = "failed") ~> (proc = "exited")

\* C4: the number of disconnect invocations equals the number of signals
\* delivered, also when a signal arrives while an earlier disconnect is
\* pending.
C4_DisconnectPerSignal ==
    /\ disconnects = signals
    /\ Len(shut) = signals
    /\ \A i \in ShutIds : Cardinality(At("disconnect", i)) = 1

\* a second signal was handled while the first disconnect was still pending
C4_Witness ==
    /\ signals = 2 /\ disconnects = 2
    /\ shut[1].disc = "pending" /\ shut[2].disc = "pending"

\* C5: as long as no termination signal is delivered, whatever probes have
\* failed, the process is running, no shutdown has begun, no rejection is
\* left unhandled, every GET / was answered with its success response and a
\* further GET / can be served.
C5_DegradedIsolation ==
    signals = 0 =>
        /\ proc = "running" /\ exitCode = -1
        /\ shut = <<>> /\ disconnects = 0
        /\ unhandled = 0
        /\ \A r \in RootIds : reqs[r].res = <<Json(RootPayload)>>
        /\ Len(reqs) < MaxReq => ENABLED GetRoot

\* a GET / answered after a health request whose probe failed was answered
C5_Witness ==
    /\ signals = 0
    /\ \E r \in HealthIds : \E q \in RootIds :
          /\ r < q
          /\ reqs[r].probe = "failed" /\ Answered(r)
          /\ reqs[q].res = <<Json(RootPayload)>>

\* C6: every GET / is answered with the same payload, and the step that
\* handles it changes nothing but the list of requests: no probe, no change
\* to the database, the shutdowns, the process or the other requests.
C6_RootStep ==
    (Len(reqs') = Len(reqs) + 1 /\ reqs'[Len(reqs')].path = "/") =>
        /\ reqs'[Len(reqs')].res = <<[code |-> 200, body |-> RootPayload]>>
        /\ \A r \in ReqIds : reqs'[r] = reqs[r]
        /\ UNCHANGED <<proc, exitCode, rejectionMode, dbUp, shut, probes,
                       disconnects, signals, unhandled, trace>>

C6_RootPure ==
    /\ [](\A r \in RootIds :
            reqs[r].res = <<[code |-> 200,
                             body |-> [service |-> "API Server", status |-> "running",
                                       version |-> "1.0.0"]]>>)
    /\ [][C6_RootStep]_vars

\* two GET / answered alike, with the database down and a shutdown under way
C6_Witness ==
    /\ Len(reqs) >= 2
    /\ reqs[1].path = "/" /\ reqs[2].path = "/" /\ reqs[1].res = reqs[2].res
    /\ ~dbUp
    /\ shut # <<>>

\* C7: while a probe is outstanding a further GET / and a further
\* GET /health are accepted, every other request whose probe is outstanding
\* or has settled can go on, and a step on one request leaves every other
\* request as it was.
C7_NotBlocked ==
    \A r \in HealthIds : (proc = "running" /\ reqs[r].pc = "awaiting") =>
        /\ Len(reqs) < MaxReq => (ENABLED GetRoot /\ ENABLED GetHealth)
        /\ \A q \in HealthIds \ {r} :
              /\ reqs[q].pc = "awaiting" => ENABLED ProbeSettle(q)
              /\ reqs[q].pc = "resumable" => ENABLED HealthResume(q)

C7_OwnProbeOnly ==
    \A r \in HealthIds : reqs'[r] # reqs[r] =>
        /\ \A q \in ReqIds \ {r} : reqs'[q] = reqs[q]
        /\ Answered(r)' =>
              reqs'[r].res = <<Json([status |-> IF reqs'[r].probe = "ok"
                                                THEN "healthy" ELSE "degraded"])>>

C7_Independent ==
    /\ []C7_NotBlocked
    /\ [][C7_OwnProbeOnly]_vars

\* the second health request was answered while the first is still awaiting
\* its probe
C7_Witness ==
    /\ Len(reqs) >= 2
    /\ reqs[1].path = "/health" /\ reqs[1].pc = "awaiting"
    /\ reqs[2].path = "/health" /\ Answered(2)

\* C8: the number of probe queries issued equals the number of GET /health
\* requests handled; no retry, and neither GET / nor shutdown issues one.
C8_OneProbePerHealth ==
    probes = Cardinality(HealthIds)

\* a failed probe was answered, a GET / was served and a shutdown has begun
C8_Witness ==
    /\ \E r \in HealthIds : reqs[r].probe = "failed" /\ Answered(r)
    /\ RootIds # {}
    /\ shut # <<>>

\* C9: shutdown does not wait for requests: a signal is handled and a
\* shutdown whose disconnect has settled goes on whatever requests are
\* outstanding, and the exit leaves the outstanding requests unanswered.
C9_NoWait ==
    proc = "running" =>
        /\ signals < MaxSig => ENABLED (\E sig \in Signals : Signal(sig))
        /\ \A i \in ShutIds :
              /\ shut[i].pc = "awaiting" => ENABLED DisconnectSettle(i, TRUE)
              /\ shut[i].pc = "resumable" => ENABLED ShutdownResume(i)

C9_ExitAnswersNothing ==
    proc' = "exited" => reqs' = reqs

C9_NoDrain ==
    /\ []C9_NoWait
    /\ [][C9_ExitAnswersNothing]_vars

\* the process has exited with status 0 and a health request is unanswered
C9_Witness ==
    /\ proc = "exited" /\ exitCode = 0
    /\ \E r \in HealthIds : reqs[r].pc = "awaiting" /\ ~Answered(r)

\* C10: a health request has at most one response and has none while its
\* probe is pending; if no termination signal is delivered, a health request
\* whose probe has settled is eventually answered.
C10_AnsweredOnlyIfSettled ==
    \A r \in HealthIds :
        /\ Len(reqs[r].res) <= 1
        /\ Answered(r) => Settled(r)
        /\ reqs[r].pc = "done" <=> Answered(r)

C10_AnsweredIffSettled ==
    /\ []C10_AnsweredOnlyIfSettled
    /\ \A r \in 1..MaxReq :
          (r \in HealthIds /\ Settled(r)) ~>
              (signals > 0 \/ (r \in HealthIds /\ Len(reqs[r].res) = 1))

\* one health request answered, another still waiting for its probe, no
\* signal delivered
C10_Witness ==
    /\ signals = 0
    /\ \E r, q \in HealthIds :
          /\ Answered(r) /\ Settled(r)
          /\ reqs[q].probe = "pending" /\ ~Answered(q)
====
